---- MODULE Spec2Model ----
(***************************************************************************)
(* Model of the Tic Tac Toe relay server of linera-tic-tac-toe: the        *)
(* TicTacToeGame session state machine, the in-memory games registry, the  *)
(* REST routes that create, join and move, and the WebSocket fan-out.      *)
(* Source: src/linera-tic-tac-toe/CORRECT_DEPLOYMENT.md, lines 227-492.    *)
(***************************************************************************)
EXTENDS Integers, Sequences, FiniteSets, TLC

(***************************************************************************)
(* Bounds of the exploration.  A run follows one session to the end of the *)
(* longest game, or one session and a connection watching it to the        *)
(* earliest end of a game, or a registry of MaxGames sessions for MaxOps   *)
(* accepted mutations.                                                     *)
(***************************************************************************)
\* Sessions of the registry run.
MaxGames == 2
\* Accepted mutations (create, join, move) of the registry run.
MaxOps == 4
\* Games in the list a GameList is given.
MaxListed == 2
\* Clicks on the cells of a GameBoard.
MaxClicks == 2
\* Games played in the statistics a PlayerStats is given.
MaxPlayed == 203
(***************************************************************************)
(* Values.                                                                 *)
(***************************************************************************)
Null == "null"
Undefined == "undefined"
Symbols == {"X", "O"}
Cells == 0..8
PlayerIds == {"p1", "p2"}
PlayerNames == {"Ann"}
\* Positions a move request may carry: the nine cells and an index outside
\* the board.
Positions == 0..9
\* The WebSocket connections a run may open.
Sockets == {"c1", "c2"}
\* ws.gameId before any subscription.
NoGameId == 0
\* A request body without position: board[undefined] names no cell.
MissingPosition == 10
\* Other positions JSON can carry, by a code each: a negative number (-1), a
\* fraction (1.5), a string that is no number ("a") and the string "4".
NegativePosition == 0 - 1
FractionalPosition == 11
NonNumericPosition == 12
StringPosition == 13
\* The cell the string position names.
StringPositionCell == 4
\* What a request may carry when fields may be missing from its body.
AnyPlayerIds == PlayerIds \cup {Undefined}
AnyPlayerNames == PlayerNames \cup {Undefined}
OddPositions ==
    {MissingPosition, NegativePosition, FractionalPosition, NonNumericPosition,
     StringPosition}
AnyPositions == Positions \cup OddPositions

VARIABLES
    games,      \* the games Map, in insertion order; a session's id is its index
    clients,    \* wss.clients: readyState and gameId of every connection
    response,   \* the reply of the request handled last
    sent,       \* per connection, the messages client.send gave it while handling it
    limit,      \* the run's bounds: sessions, mutations left, connections, bodies
    ui          \* the front end component under study: its props and its state

vars == <<games, clients, response, sent, limit, ui>>

\* No component is mounted.
NoView == [view |-> "none"]

(***************************************************************************)
(* class TicTacToeGame                                                     *)
(***************************************************************************)
\* The constructor giving the first turn to O.
TicTacToeGame_startsO(gameId, now) ==
    [ id            |-> gameId,
      board         |-> [i \in Cells |-> Null],
      currentPlayer |-> "O",
      players       |-> << >>,
      status        |-> "waiting",
      winner        |-> Null,
      createdAt     |-> now ]

TicTacToeGame(gameId, now) ==
    [ id            |-> gameId,
      board         |-> [i \in Cells |-> Null],
      currentPlayer |-> "X",
      players       |-> << >>,
      status        |-> "waiting",
      winner        |-> Null,
      createdAt     |-> now ]

\* addPlayer that still accepts a player when two are seated.
addPlayerAccepts_three(game) == Len(game.players) <= 2

addPlayerAccepts(game) == Len(game.players) < 2

\* addPlayer that hands out the symbols the other way round.
addPlayer_swapped(game, playerId, playerName) ==
    LET symbol == IF Len(game.players) = 0 THEN "O" ELSE "X"
        pushed == Append(game.players,
                         [id |-> playerId, name |-> playerName, symbol |-> symbol])
    IN  [game EXCEPT !.players = pushed,
                     !.status  = IF Len(pushed) = 2 THEN "playing" ELSE @]

\* addPlayer when it returns true.
addPlayer(game, playerId, playerName) ==
    LET symbol == IF Len(game.players) = 0 THEN "X" ELSE "O"
        pushed == Append(game.players,
                         [id |-> playerId, name |-> playerName, symbol |-> symbol])
    IN  [game EXCEPT !.players = pushed,
                     !.status  = IF Len(pushed) = 2 THEN "playing" ELSE @]

winPatterns ==
    { <<0, 1, 2>>, <<3, 4, 5>>, <<6, 7, 8>>,
      <<0, 3, 6>>, <<1, 4, 7>>, <<2, 5, 8>>,
      <<0, 4, 8>>, <<2, 4, 6>> }

\* checkWinner with a slip in the last pattern: [2, 4, 7] for [2, 4, 6].
checkWinner_slip(board) ==
    \E pattern \in (winPatterns \ {<<2, 4, 6>>}) \cup {<<2, 4, 7>>} :
        /\ board[pattern[1]] # Null
        /\ board[pattern[1]] = board[pattern[2]]
        /\ board[pattern[1]] = board[pattern[3]]

\* checkWinner satisfied by the first two cells of a pattern.
checkWinner_pair(board) ==
    \E pattern \in winPatterns :
        /\ board[pattern[1]] # Null
        /\ board[pattern[1]] = board[pattern[2]]

checkWinner(board) ==
    \E pattern \in winPatterns :
        /\ board[pattern[1]] # Null
        /\ board[pattern[1]] = board[pattern[2]]
        /\ board[pattern[1]] = board[pattern[3]]

\* The property of the board array that board[position] reads and writes:
\* the key is the position as a string, so "4" and 4 are one property.
propertyKey(position) ==
    IF position = StringPosition THEN StringPositionCell ELSE position

\* board[position]: undefined where the array has no such property.
cellAt(board, position) ==
    LET key == propertyKey(position)
    IN  IF key \in DOMAIN board THEN board[key] ELSE Undefined

\* board[position] = mark: creates the property if the array has none.
setCell(board, position, mark) ==
    LET key == propertyKey(position)
    IN  [i \in DOMAIN board \cup {key} |-> IF i = key THEN mark ELSE board[i]]

\* players.find(p => p.id === playerId): the index of the first match, 0 if none.
findPlayer(players, playerId) ==
    LET hits == { i \in 1..Len(players) : players[i].id = playerId }
    IN  IF hits = {} THEN 0 ELSE CHOOSE i \in hits : \A j \in hits : i <= j

\* makeMove testing the cell with !this.board[position] in place of !== null.
makeMoveAccepts_falsy(game, playerId, position) ==
    /\ game.status = "playing"
    /\ cellAt(game.board, position) \in {Null, Undefined}
    /\ LET k == findPlayer(game.players, playerId)
       IN  /\ k # 0
           /\ game.players[k].symbol = game.currentPlayer

\* makeMove without the test that the cell is empty.
makeMoveAccepts_overwrites(game, playerId, position) ==
    /\ game.status = "playing"
    /\ position \in Cells
    /\ LET k == findPlayer(game.players, playerId)
       IN  /\ k # 0
           /\ game.players[k].symbol = game.currentPlayer

\* makeMove without the test that the game is being played.
makeMoveAccepts_anyStatus(game, playerId, position) ==
    /\ cellAt(game.board, position) = Null
    /\ LET k == findPlayer(game.players, playerId)
       IN  /\ k # 0
           /\ game.players[k].symbol = game.currentPlayer

\* makeMove that refuses a finished game only, not one still waiting.
makeMoveAccepts_notFinished(game, playerId, position) ==
    /\ game.status # "finished"
    /\ cellAt(game.board, position) = Null
    /\ LET k == findPlayer(game.players, playerId)
       IN  /\ k # 0
           /\ game.players[k].symbol = game.currentPlayer

\* makeMove without the test that the player holds the turn.
makeMoveAccepts_anyPlayer(game, playerId, position) ==
    /\ game.status = "playing"
    /\ cellAt(game.board, position) = Null
    /\ findPlayer(game.players, playerId) # 0

makeMoveAccepts(game, playerId, position) ==
    /\ game.status = "playing"
    /\ cellAt(game.board, position) = Null
    /\ LET k == findPlayer(game.players, playerId)
       IN  /\ k # 0
           /\ game.players[k].symbol = game.currentPlayer

\* makeMove that forgets to pass the turn.
makeMove_keepsTurn(game, playerId, position) ==
    LET board == setCell(game.board, position, game.currentPlayer)
    IN  IF checkWinner(board)
        THEN [game EXCEPT !.board = board,
                          !.winner = game.currentPlayer,
                          !.status = "finished"]
        ELSE IF \A i \in Cells : board[i] # Null
        THEN [game EXCEPT !.board = board,
                          !.status = "finished",
                          !.winner = "draw"]
        ELSE [game EXCEPT !.board = board]

\* makeMove that tests for a full board before it tests for a winner.
makeMove_drawFirst(game, playerId, position) ==
    LET board == setCell(game.board, position, game.currentPlayer)
    IN  IF \A i \in Cells : board[i] # Null
        THEN [game EXCEPT !.board = board,
                          !.status = "finished",
                          !.winner = "draw"]
        ELSE IF checkWinner(board)
        THEN [game EXCEPT !.board = board,
                          !.winner = game.currentPlayer,
                          !.status = "finished"]
        ELSE [game EXCEPT !.board = board,
                          !.currentPlayer = IF @ = "X" THEN "O" ELSE "X"]

\* makeMove that records the winner and leaves the status at 'playing'.
makeMove_winKeepsPlaying(game, playerId, position) ==
    LET board == setCell(game.board, position, game.currentPlayer)
    IN  IF checkWinner(board)
        THEN [game EXCEPT !.board = board,
                          !.winner = game.currentPlayer]
        ELSE IF \A i \in Cells : board[i] # Null
        THEN [game EXCEPT !.board = board,
                          !.status = "finished",
                          !.winner = "draw"]
        ELSE [game EXCEPT !.board = board,
                          !.currentPlayer = IF @ = "X" THEN "O" ELSE "X"]

\* makeMove that looks for a winner before it writes the mark.
makeMove_checksBeforeWrite(game, playerId, position) ==
    LET board == setCell(game.board, position, game.currentPlayer)
    IN  IF checkWinner(game.board)
        THEN [game EXCEPT !.board = board,
                          !.winner = game.currentPlayer,
                          !.status = "finished"]
        ELSE IF \A i \in Cells : board[i] # Null
        THEN [game EXCEPT !.board = board,
                          !.status = "finished",
                          !.winner = "draw"]
        ELSE [game EXCEPT !.board = board,
                          !.currentPlayer = IF @ = "X" THEN "O" ELSE "X"]

\* makeMove when it returns true.
makeMove(game, playerId, position) ==
    LET board == setCell(game.board, position, game.currentPlayer)
    IN  IF checkWinner(board)
        THEN [game EXCEPT !.board = board,
                          !.winner = game.currentPlayer,
                          !.status = "finished"]
        ELSE IF \A i \in Cells : board[i] # Null
        THEN [game EXCEPT !.board = board,
                          !.status = "finished",
                          !.winner = "draw"]
        ELSE [game EXCEPT !.board = board,
                          !.currentPlayer = IF @ = "X" THEN "O" ELSE "X"]

getState(game) ==
    [ id            |-> game.id,
      board         |-> game.board,
      currentPlayer |-> game.currentPlayer,
      players       |-> game.players,
      status        |-> game.status,
      winner        |-> game.winner,
      createdAt     |-> game.createdAt ]

(***************************************************************************)
(* The registry and the replies.                                           *)
(***************************************************************************)
\* The ids of the sessions in the registry.
GameIds == DOMAIN games

\* games.get(gameId) is defined.
hasGame(gameId) == gameId \in DOMAIN games

\* A reply: its status and body.  kind tells a {game} body from a {games} body.
ok(game) ==
    [status |-> 200, success |-> TRUE, error |-> Null, kind |-> "game",
     games |-> <<getState(game)>>]
\* The list reply with the newest session first.
okList_newestFirst(gs) ==
    [status |-> 200, success |-> TRUE, error |-> Null, kind |-> "games",
     games |-> [i \in DOMAIN gs |-> getState(gs[Len(gs) + 1 - i])]]

okList(gs) ==
    [status |-> 200, success |-> TRUE, error |-> Null, kind |-> "games",
     games |-> [i \in DOMAIN gs |-> getState(gs[i])]]
fail(code, text) ==
    [status |-> code, success |-> FALSE, error |-> text, kind |-> "error", games |-> << >>]
NoResponse ==
    [status |-> 0, success |-> FALSE, error |-> Null, kind |-> "none", games |-> << >>]

\* Ids a request may name: every id the registry can issue and one it never issues.
RequestIds == 1..(limit.games + 1)

\* Bodies explored for a request on gameId.  A route replies 404 before it uses
\* the body, so one body stands for all the requests that name an unknown id.
Bodies(gameId, all) == IF hasGame(gameId) THEN all ELSE {CHOOSE b \in all : TRUE}
\* Bodies with a field missing, in the runs that explore them.
MalformedJoins ==
    IF limit.malformed
    THEN {<<Undefined, Undefined>>} \cup ({Undefined} \X PlayerNames)
            \cup (PlayerIds \X {Undefined})
    ELSE {}
MalformedMoves ==
    IF limit.malformed
    THEN ({Undefined} \X (Positions \cup {MissingPosition}))
            \cup (PlayerIds \X OddPositions)
    ELSE {}
JoinBodies(gameId) == Bodies(gameId, (PlayerIds \X PlayerNames) \cup MalformedJoins)
MoveBodies(gameId) == Bodies(gameId, (PlayerIds \X Positions) \cup MalformedMoves)

ClientIds == limit.clients

\* The run may still accept a mutation, which then counts against the limit.
WithinOps == limit.ops > 0
Counted == limit' = [limit EXCEPT !.ops = @ - 1]

(***************************************************************************)
(* WebSocket fan-out.                                                      *)
(***************************************************************************)
\* What broadcastToGame sends, given the clients as they are at the call.
\* broadcastToGame without the test of client.gameId.
broadcastToGame_anySession(cl, gameId, message) ==
    [c \in ClientIds |->
        IF cl[c].readyState = "OPEN"
        THEN <<message>>
        ELSE << >>]

broadcastToGame(cl, gameId, message) ==
    [c \in ClientIds |->
        IF cl[c].gameId = gameId /\ cl[c].readyState = "OPEN"
        THEN <<message>>
        ELSE << >>]

\* A handler that sends nothing.
NoSends == [c \in ClientIds |-> << >>]

game_update(game) == [type |-> "game_update", game |-> getState(game)]

(***************************************************************************)
(* REST routes.                                                            *)
(***************************************************************************)
\* POST /api/games.  The handler never reads the body the client sends.
PostGames(playerId, playerName) ==
    /\ Len(games) < limit.games
    /\ WithinOps
    /\ LET gameId == Len(games) + 1
           game   == TicTacToeGame(gameId, gameId)
       IN  /\ games' = Append(games, game)
           /\ response' = ok(game)
    /\ sent' = NoSends
    /\ Counted
    /\ UNCHANGED clients

\* The join route telling the subscribers of a full game about the refusal.
PostJoin_broadcastsRefusal(gameId, playerId, playerName) ==
    /\ IF ~hasGame(gameId)
       THEN /\ response' = fail(404, "Game not found")
            /\ sent' = NoSends
            /\ UNCHANGED <<games, limit>>
       ELSE IF ~addPlayerAccepts(games[gameId])
       THEN /\ response' = fail(400, "Game is full")
            /\ sent' = broadcastToGame(clients, gameId, game_update(games[gameId]))
            /\ UNCHANGED <<games, limit>>
       ELSE /\ WithinOps
            /\ LET game == addPlayer(games[gameId], playerId, playerName)
               IN  /\ games' = [games EXCEPT ![gameId] = game]
                   /\ sent' = broadcastToGame(clients, gameId, game_update(game))
                   /\ response' = ok(game)
            /\ Counted
    /\ UNCHANGED clients

\* POST /api/games/:gameId/join
PostJoin(gameId, playerId, playerName) ==
    /\ IF ~hasGame(gameId)
       THEN /\ response' = fail(404, "Game not found")
            /\ sent' = NoSends
            /\ UNCHANGED <<games, limit>>
       ELSE IF ~addPlayerAccepts(games[gameId])
       THEN /\ response' = fail(400, "Game is full")
            /\ sent' = NoSends
            /\ UNCHANGED <<games, limit>>
       ELSE /\ WithinOps
            /\ LET game == addPlayer(games[gameId], playerId, playerName)
               IN  /\ games' = [games EXCEPT ![gameId] = game]
                   /\ sent' = broadcastToGame(clients, gameId, game_update(game))
                   /\ response' = ok(game)
            /\ Counted
    /\ UNCHANGED clients

\* The move route passing the turn before it refuses an invalid move.
PostMove_switchesTurn(gameId, playerId, position) ==
    /\ IF ~hasGame(gameId)
       THEN /\ response' = fail(404, "Game not found")
            /\ sent' = NoSends
            /\ UNCHANGED <<games, limit>>
       ELSE IF ~makeMoveAccepts(games[gameId], playerId, position)
       THEN /\ response' = fail(400, "Invalid move")
            /\ sent' = NoSends
            /\ games' = [games EXCEPT ![gameId].currentPlayer =
                                          IF @ = "X" THEN "O" ELSE "X"]
            /\ UNCHANGED limit
       ELSE /\ WithinOps
            /\ LET game == makeMove(games[gameId], playerId, position)
               IN  /\ games' = [games EXCEPT ![gameId] = game]
                   /\ sent' = broadcastToGame(clients, gameId, game_update(game))
                   /\ response' = ok(game)
            /\ Counted
    /\ UNCHANGED clients

\* The move route broadcasting the state it read before the move.
PostMove_staleBroadcast(gameId, playerId, position) ==
    /\ IF ~hasGame(gameId)
       THEN /\ response' = fail(404, "Game not found")
            /\ sent' = NoSends
            /\ UNCHANGED <<games, limit>>
       ELSE IF ~makeMoveAccepts(games[gameId], playerId, position)
       THEN /\ response' = fail(400, "Invalid move")
            /\ sent' = NoSends
            /\ UNCHANGED <<games, limit>>
       ELSE /\ WithinOps
            /\ LET game == makeMove(games[gameId], playerId, position)
               IN  /\ games' = [games EXCEPT ![gameId] = game]
                   /\ sent' = broadcastToGame(clients, gameId,
                                              game_update(games[gameId]))
                   /\ response' = ok(game)
            /\ Counted
    /\ UNCHANGED clients

\* POST /api/games/:gameId/move
PostMove(gameId, playerId, position) ==
    /\ IF ~hasGame(gameId)
       THEN /\ response' = fail(404, "Game not found")
            /\ sent' = NoSends
            /\ UNCHANGED <<games, limit>>
       ELSE IF ~makeMoveAccepts(games[gameId], playerId, position)
       THEN /\ response' = fail(400, "Invalid move")
            /\ sent' = NoSends
            /\ UNCHANGED <<games, limit>>
       ELSE /\ WithinOps
            /\ LET game == makeMove(games[gameId], playerId, position)
               IN  /\ games' = [games EXCEPT ![gameId] = game]
                   /\ sent' = broadcastToGame(clients, gameId, game_update(game))
                   /\ response' = ok(game)
            /\ Counted
    /\ UNCHANGED clients

\* The list route dropping every subscription as it reads.
GetGames_unsubscribes ==
    /\ response' = okList(games)
    /\ sent' = NoSends
    /\ clients' = [c \in ClientIds |-> [clients[c] EXCEPT !.gameId = NoGameId]]
    /\ UNCHANGED <<games, limit>>

\* GET /api/games
GetGames ==
    /\ response' = okList(games)
    /\ sent' = NoSends
    /\ UNCHANGED <<games, clients, limit>>

\* The get route opening a session under the next id when asked for it.
GetGame_opensSession(gameId) ==
    /\ IF hasGame(gameId)
       THEN /\ response' = ok(games[gameId])
            /\ UNCHANGED games
       ELSE IF gameId = Len(games) + 1
       THEN /\ games' = Append(games, TicTacToeGame(gameId, gameId))
            /\ response' = ok(games'[gameId])
       ELSE /\ response' = fail(404, "Game not found")
            /\ UNCHANGED games
    /\ sent' = NoSends
    /\ UNCHANGED <<clients, limit>>

\* GET /api/games/:gameId
GetGame(gameId) ==
    /\ response' = IF hasGame(gameId) THEN ok(games[gameId])
                                      ELSE fail(404, "Game not found")
    /\ sent' = NoSends
    /\ UNCHANGED <<games, clients, limit>>

(***************************************************************************)
(* WebSocket connections.                                                  *)
(***************************************************************************)
\* wss.on('connection')
Connect(c) ==
    /\ clients[c].readyState = "NONE"
    /\ clients' = [clients EXCEPT ![c] = [readyState |-> "OPEN", gameId |-> NoGameId]]
    /\ response' = NoResponse
    /\ sent' = NoSends
    /\ UNCHANGED <<games, limit>>

\* join_game dropping the subscription when it names an unknown game.
HandleJoinGame_dropsOnUnknown(c, gameId) ==
    /\ clients[c].readyState = "OPEN"
    /\ IF hasGame(gameId)
       THEN LET cl == [clients EXCEPT ![c].gameId = gameId]
            IN  /\ clients' = cl
                /\ sent' = broadcastToGame(cl, gameId, game_update(games[gameId]))
       ELSE /\ sent' = NoSends
            /\ clients' = [clients EXCEPT ![c].gameId = NoGameId]
    /\ response' = NoResponse
    /\ UNCHANGED <<games, limit>>

\* handleWebSocketMessage, case 'join_game'
HandleJoinGame(c, gameId) ==
    /\ clients[c].readyState = "OPEN"
    /\ IF hasGame(gameId)
       THEN LET cl == [clients EXCEPT ![c].gameId = gameId]
            IN  /\ clients' = cl
                /\ sent' = broadcastToGame(cl, gameId, game_update(games[gameId]))
       ELSE /\ sent' = NoSends
            /\ UNCHANGED clients
    /\ response' = NoResponse
    /\ UNCHANGED <<games, limit>>

\* The peer starts closing: the socket stays in wss.clients, no longer OPEN.
Closing(c) ==
    /\ clients[c].readyState = "OPEN"
    /\ clients' = [clients EXCEPT ![c].readyState = "CLOSING"]
    /\ response' = NoResponse
    /\ sent' = NoSends
    /\ UNCHANGED <<games, limit>>

\* ws.on('close'): the socket leaves wss.clients.
Close(c) ==
    /\ clients[c].readyState = "CLOSING"
    /\ clients' = [clients EXCEPT ![c] = [readyState |-> "NONE", gameId |-> NoGameId]]
    /\ response' = NoResponse
    /\ sent' = NoSends
    /\ UNCHANGED <<games, limit>>

(***************************************************************************)
(* Specifications.                                                         *)
(***************************************************************************)
\* One session to the end of the longest game: 1 create, 2 joins, 9 moves.
GameRun ==
    [games |-> 1, ops |-> 1 + 2 + Cardinality(Cells), clients |-> {}, malformed |-> FALSE]
\* One session, watched over a WebSocket, to the earliest end of a game:
\* 1 create, 2 joins, 5 moves.
WatchedRun ==
    [games |-> 1, ops |-> 1 + 2 + 5, clients |-> {"c1"}, malformed |-> FALSE]
\* Several sessions and connections.
RegistryRun ==
    [games |-> MaxGames, ops |-> MaxOps, clients |-> Sockets, malformed |-> FALSE]
\* One session and requests with fields missing from the body: 1 create,
\* 2 joins, 2 moves.
MalformedRun ==
    [games |-> 1, ops |-> 1 + 2 + 2, clients |-> {}, malformed |-> TRUE]

Init ==
    /\ games = << >>
    /\ limit \in {GameRun, WatchedRun, RegistryRun, MalformedRun}
    /\ clients = [c \in limit.clients |-> [readyState |-> "NONE", gameId |-> NoGameId]]
    /\ response = NoResponse
    /\ sent = [c \in limit.clients |-> << >>]
    /\ ui = NoView

Next ==
    \/ \E playerId \in PlayerIds, playerName \in PlayerNames :
          PostGames(playerId, playerName) /\ UNCHANGED ui
    \/ \E gameId \in RequestIds : \E body \in JoinBodies(gameId) :
          PostJoin(gameId, body[1], body[2]) /\ UNCHANGED ui
    \/ \E gameId \in RequestIds : \E body \in MoveBodies(gameId) :
          PostMove(gameId, body[1], body[2]) /\ UNCHANGED ui
    \/ GetGames /\ UNCHANGED ui
    \/ \E gameId \in RequestIds : GetGame(gameId) /\ UNCHANGED ui
    \/ \E c \in ClientIds : Connect(c) /\ UNCHANGED ui
    \/ \E c \in ClientIds, gameId \in RequestIds :
          HandleJoinGame(c, gameId) /\ UNCHANGED ui
    \/ \E c \in ClientIds : Closing(c) /\ UNCHANGED ui
    \/ \E c \in ClientIds : Close(c) /\ UNCHANGED ui

Spec == Init /\ [][Next]_vars

(***************************************************************************)
(* Front end.  GameBoard, GameList and PlayerStats are given their props   *)
(* by App, which hands on the game objects of the relay's replies and      *)
(* pushes as they are.                                                     *)
(***************************************************************************)
\* obj[name]: undefined when the object has no such property.
field(obj, name) == IF name \in DOMAIN obj THEN obj[name] ELSE Undefined

\* if (value): null and undefined are falsy, a non-empty string is truthy.
truthy(value) == value \notin {Null, Undefined}

\* players.find(p => p.symbol === symbol): the index of the first match, 0 if none.
findSymbol(players, symbol) ==
    LET hits == { i \in 1..Len(players) : players[i].symbol = symbol }
    IN  IF hits = {} THEN 0 ELSE CHOOSE i \in hits : \A j \in hits : i <= j

\* The outcome of reading a property of undefined.
TypeError == "TypeError"

(***************************************************************************)
(* GameBoard                                                               *)
(***************************************************************************)
isMyTurn(game, playerId) ==
    LET k == findPlayer(game.players, playerId)
    IN  /\ k # 0
        /\ field(game, "current_player") = game.players[k].symbol

\* canPlay without the test of the status.
canPlay_anyStatus(game, playerId) == isMyTurn(game, playerId)

canPlay(game, playerId) ==
    /\ game.status = "playing"
    /\ isMyTurn(game, playerId)

\* The disabled attribute of the button of cell index.
cellDisabled(game, playerId, index) ==
    ~canPlay(game, playerId) \/ game.board[index] # Null

\* The status line; {name} stands for the name of the player it mentions.
getGameStatusMessage(game, playerId) ==
    CASE game.status = "waiting" -> "Waiting for another player to join..."
      [] game.status = "playing" ->
            IF isMyTurn(game, playerId)
            THEN "It's your turn!"
            ELSE "Waiting for {name}'s move..."
      [] game.status = "finished" ->
            IF truthy(game.winner)
            THEN LET k == findSymbol(game.players, game.winner)
                 IN  IF k = 0 THEN TypeError
                     ELSE IF game.players[k].id = playerId
                     THEN "You won! Congratulations!"
                     ELSE "{name} won! Better luck next time."
            ELSE "It's a draw! Good game!"
      [] OTHER -> "Unknown game status"

(***************************************************************************)
(* GameList                                                                *)
(***************************************************************************)
Filters == {"all", "joinable", "my-games", "waiting", "playing", "finished"}

getGameResult(game, playerId) ==
    IF game.status # "finished" THEN Null
    ELSE IF ~truthy(game.winner) THEN "Draw"
    ELSE LET k == findSymbol(game.players, game.winner)
         IN  IF k # 0 /\ game.players[k].id = playerId
             THEN "You Won!"
             ELSE "{name} Won"

\* canJoinGame without the test of the status.
canJoinGame_anyStatus(game, playerId) ==
    /\ Len(game.players) < 2
    /\ \A i \in DOMAIN game.players : game.players[i].id # playerId

canJoinGame(game, playerId) ==
    /\ game.status = "waiting"
    /\ Len(game.players) < 2
    /\ ~\E i \in DOMAIN game.players : game.players[i].id = playerId

isPlayerInGame(game, playerId) ==
    \E i \in DOMAIN game.players : game.players[i].id = playerId

\* The test the status filter applies to a game.
passesFilter(game, filter, playerId) ==
    CASE filter = "all" -> TRUE
      [] filter = "joinable" -> canJoinGame(game, playerId)
      [] filter = "my-games" -> isPlayerInGame(game, playerId)
      [] filter = "waiting" -> game.status = "waiting"
      [] filter = "playing" -> game.status = "playing"
      [] filter = "finished" -> game.status = "finished"
      [] OTHER -> TRUE

newerFirst(a, b) == a.created_at > b.created_at

\* The cards shown with an empty search box and the sort 'newest'.
filteredAndSortedGames(gs, filter, playerId) ==
    LET passes(game) == passesFilter(game, filter, playerId)
    IN  SortSeq(SelectSeq(gs, passes), newerFirst)

\* The games prop after the memo has run.  filtered starts as the games array
\* itself and only a filter other than 'all' (or a search term) replaces it
\* by a copy, so with the filter 'all' filtered.sort sorts the prop in place.
gamesAfterMemo(gs, filter) ==
    IF filter = "all" THEN SortSeq(gs, newerFirst) ELSE gs

getFilterCounts(gs, playerId) ==
    [filter \in Filters |->
        Cardinality({ i \in DOMAIN gs : passesFilter(gs[i], filter, playerId) })]

\* What the game-card-actions of a card holds.
cardActions(game, playerId) ==
    LET canJoin      == canJoinGame(game, playerId)
        playerInGame == isPlayerInGame(game, playerId)
    IN  (IF canJoin THEN {"Join Game"} ELSE {})
        \cup (IF playerInGame /\ game.status # "finished" THEN {"Continue Game"} ELSE {})
        \cup (IF game.status = "finished" THEN {"View Game"} ELSE {})
        \cup (IF ~canJoin /\ ~playerInGame /\ game.status = "waiting"
              THEN {"Waiting for players"} ELSE {})

(***************************************************************************)
(* PlayerStats                                                             *)
(***************************************************************************)
\* toFixed(1) truncating where it should round.
toFixed1_truncates(wins, games_played) ==
    (1000 * wins) \div games_played

\* ((wins / games_played) * 100).toFixed(1), in tenths of a percent: the
\* nearest tenth.
toFixed1(wins, games_played) ==
    (2000 * wins + games_played) \div (2 * games_played)

\* In tenths of a percent.
getWinRate(stats) ==
    IF stats.games_played = 0 THEN 0 ELSE toFixed1(stats.wins, stats.games_played)

getRank(stats) ==
    LET winRate == getWinRate(stats)
    IN  IF winRate >= 800 THEN "Grandmaster"
        ELSE IF winRate >= 700 THEN "Master"
        ELSE IF winRate >= 600 THEN "Expert"
        ELSE IF winRate >= 500 THEN "Advanced"
        ELSE IF winRate >= 300 THEN "Intermediate"
        ELSE "Beginner"

achievement(id, unlocked) == [id |-> id, unlocked |-> unlocked]
pushIf(test, entry) == IF test THEN <<entry>> ELSE << >>

calculateAchievements(stats) ==
    pushIf(stats.games_played >= 1, achievement("first_game", TRUE))
    \o pushIf(stats.wins >= 1, achievement("first_win", TRUE))
    \o pushIf(stats.wins >= 5, achievement("five_wins", TRUE))
    \o pushIf(stats.wins >= 10, achievement("ten_wins", TRUE))
    \o pushIf(stats.games_played >= 10, achievement("veteran", TRUE))
    \o pushIf(stats.draws >= 3, achievement("peacemaker", TRUE))
    \o pushIf(stats.games_played >= 5 /\ 10 * stats.wins >= 7 * stats.games_played,
              achievement("high_win_rate", TRUE))
    \o pushIf(stats.wins < 5, achievement("five_wins", FALSE))
    \o pushIf(stats.wins < 10, achievement("ten_wins", FALSE))

(***************************************************************************)
(* The props the components are studied with.                              *)
(***************************************************************************)
\* The viewer and two other participants.
ViewerId == "p1"
seat(id, symbol) == [id |-> id, name |-> "Ann", symbol |-> symbol]
PlayerLists ==
    { << >>,
      <<seat("p1", "X")>>,
      <<seat("p2", "X")>>,
      <<seat("p1", "X"), seat("p2", "O")>>,
      <<seat("p2", "X"), seat("p1", "O")>>,
      <<seat("p2", "X"), seat("p3", "O")>>,
      <<seat("p1", "X"), seat("p1", "O")>> }
Statuses == {"waiting", "playing", "finished"}
\* Boards whose first row varies.
BoardInputs ==
    { [i \in Cells |-> IF i \in DOMAIN row THEN row[i] ELSE Null] :
        row \in [0..2 -> {Null} \cup Symbols] }

BoardViews ==
    { [view |-> "board", playerId |-> ViewerId,
       game |-> [id |-> 1, board |-> b, current_player |-> cp, players |-> ps,
                 status |-> st, winner |-> Null],
       selectedCell |-> Null, timers |-> << >>, onMove |-> << >>] :
        b \in BoardInputs, cp \in Symbols \cup {Undefined}, ps \in PlayerLists,
        st \in Statuses }

listedGame(i, kind) ==
    [id |-> i, created_at |-> i, status |-> kind[1], players |-> kind[2],
     winner |-> Null]
ListViews ==
    { [view |-> "list", playerId |-> ViewerId, filter |-> "all", rendered |-> FALSE,
       games |-> [i \in DOMAIN kinds |-> listedGame(i, kinds[i])]] :
        kinds \in UNION { [1..n -> Statuses \X PlayerLists] : n \in 1..MaxListed } }

StatsViews ==
    { [view |-> "stats", stats |-> st, achievements |-> << >>,
       calculated |-> FALSE, rank |-> Null] :
        st \in { st \in [games_played : 0..MaxPlayed, wins : 0..MaxPlayed, draws : {0, 3}] :
                   st.wins + st.draws <= st.games_played } }

(***************************************************************************)
(* What the components do.                                                 *)
(***************************************************************************)
relay == <<games, clients, response, sent, limit>>

\* GameBoard.handleCellClick when it does not return at once.
HandleCellClick(index) ==
    /\ ui.view = "board"
    /\ Len(ui.timers) + Len(ui.onMove) < MaxClicks
    /\ ~(~canPlay(ui.game, ui.playerId) \/ ui.game.board[index] # Null)
    /\ ui' = [ui EXCEPT !.selectedCell = index, !.timers = Append(@, index)]
    /\ UNCHANGED relay

\* The timeout handleCellClick has set.
CellTimeout ==
    /\ ui.view = "board"
    /\ ui.timers # << >>
    /\ ui' = [ui EXCEPT !.onMove = Append(@, Head(ui.timers)),
                        !.selectedCell = Null,
                        !.timers = Tail(@)]
    /\ UNCHANGED relay

\* GameList: the first render, which runs the memo.
RenderList ==
    /\ ui.view = "list"
    /\ ~ui.rendered
    /\ ui' = [ui EXCEPT !.rendered = TRUE,
                        !.games = gamesAfterMemo(@, ui.filter)]
    /\ UNCHANGED relay

\* GameList: a click on a filter tab and the render it causes.
SetFilter(filter) ==
    /\ ui.view = "list"
    /\ ui.rendered
    /\ ui.filter # filter
    /\ ui' = [ui EXCEPT !.filter = filter,
                        !.games = gamesAfterMemo(@, filter)]
    /\ UNCHANGED relay

\* PlayerStats: the first render.
Render ==
    /\ ui.view = "stats"
    /\ ui.rank = Null
    /\ ui' = [ui EXCEPT !.rank = getRank(ui.stats)]
    /\ UNCHANGED relay

\* PlayerStats: the effect that runs after the render.
CalculateAchievements ==
    /\ ui.view = "stats"
    /\ ui.rank # Null
    /\ ~ui.calculated
    /\ ui' = [ui EXCEPT !.achievements = calculateAchievements(ui.stats),
                        !.calculated = TRUE]
    /\ UNCHANGED relay

\* A component is mounted with its props; the relay is idle.
IdleRun == [games |-> 0, ops |-> 0, clients |-> {}, malformed |-> FALSE]
ViewInit ==
    /\ games = << >>
    /\ limit = IdleRun
    /\ clients = [c \in limit.clients |-> [readyState |-> "NONE", gameId |-> NoGameId]]
    /\ response = NoResponse
    /\ sent = [c \in limit.clients |-> << >>]
    /\ ui \in BoardViews \cup ListViews \cup StatsViews

ViewNext ==
    \/ \E index \in Cells : HandleCellClick(index)
    \/ CellTimeout
    \/ RenderList
    \/ \E filter \in Filters : SetFilter(filter)
    \/ Render
    \/ CalculateAchievements

ViewSpec == ViewInit /\ [][ViewNext]_vars

(***************************************************************************)
(* App.  One App talks to the relay over HTTP and over its socket, next to *)
(* other clients of the relay.  A request is handled by the relay when it  *)
(* is sent; its reply, the pushes the relay gives the socket and the       *)
(* messages the socket emits stay under way until they are delivered.      *)
(***************************************************************************)
\* The requests the App sends in a run.
MaxRequests == 3

\* The connection of the App's socket.
AppSocket == "c1"

\* useState(null) for currentGame: no game object.
NoGame == [id |-> NoGameId]

\* The App's state after the mount effect: the lobby is shown, no game is
\* held, the socket is connected.
AppMounted ==
    [view |-> "app", playerId |-> ViewerId, currentView |-> "games",
     currentGame |-> NoGame, loading |-> FALSE, http |-> << >>, inbox |-> << >>,
     emitted |-> << >>, requests |-> 0]

\* The bodies of the App name the fields player_id and player_name; the
\* relay reads playerId and playerName, which such a body does not have.
bodyPlayerId(body) == field(body, "playerId")
bodyPlayerName(body) == field(body, "playerName")
joinBody(playerId, playerName) == [player_id |-> playerId, player_name |-> playerName]
moveBody(playerId, position) == [player_id |-> playerId, position |-> position]

\* response.data.game of a reply.
dataGame(reply) == reply.games[1]

\* A sequence without its i-th element.
without(seq, i) == SubSeq(seq, 1, i - 1) \o SubSeq(seq, i + 1, Len(seq))

\* The pushes the handler under way gives the App's socket reach its inbox.
received(u) == [u EXCEPT !.inbox = @ \o sent'[AppSocket]]

\* The request is sent and handled; its reply is under way.  createGame and
\* joinGame set loading, makeMove does not.
requested(u, kind, gameId) ==
    [received(u) EXCEPT !.http = Append(@, [kind |-> kind, gameId |-> gameId,
                                            reply |-> response']),
                        !.loading = IF kind = "move" THEN @ ELSE TRUE,
                        !.requests = @ + 1]

\* App.createGame up to the await: 'Create Game' in the lobby, disabled
\* while loading.
AppCreateGame ==
    /\ ui.view = "app"
    /\ ui.currentView = "games"
    /\ ~ui.loading
    /\ ui.requests < MaxRequests
    /\ LET body == joinBody(ui.playerId, "Ann")
       IN  PostGames(bodyPlayerId(body), bodyPlayerName(body))
    /\ ui' = requested(ui, "create", NoGameId)

\* App.joinGame up to the await: onJoinGame(game.id) of a button the card of
\* the game shows, 'Join Game' (disabled while loading), 'Continue Game' or
\* 'View Game'.
AppJoinGame(gameId, button) ==
    /\ ui.view = "app"
    /\ ui.currentView = "games"
    /\ button = "Join Game" => ~ui.loading
    /\ ui.requests < MaxRequests
    /\ hasGame(gameId)
    /\ button \in cardActions(getState(games[gameId]), ui.playerId)
    /\ LET body == joinBody(ui.playerId, "Ann")
       IN  PostJoin(gameId, bodyPlayerId(body), bodyPlayerName(body))
    /\ ui' = requested(ui, button, gameId)

\* App.makeMove up to the await: onMove(position).
AppMakeMove(position) ==
    /\ ui.view = "app"
    /\ ui.currentView = "game"
    /\ ui.currentGame # NoGame
    /\ ui.requests < MaxRequests
    /\ LET body == moveBody(ui.playerId, position)
       IN  PostMove(ui.currentGame.id, bodyPlayerId(body), body.position)
    /\ ui' = requested(ui, "move", ui.currentGame.id)

\* The rest of createGame, joinGame or makeMove: a reply arrives.
AppResponse(i) ==
    /\ ui.view = "app"
    /\ i \in DOMAIN ui.http
    /\ LET kind  == ui.http[i].kind
           reply == ui.http[i].reply
           rest  == [ui EXCEPT !.http = without(@, i),
                               !.loading = IF kind = "move" THEN @ ELSE FALSE]
       IN  ui' = IF ~reply.success
                 THEN rest
                 ELSE IF kind = "move"
                 THEN [rest EXCEPT !.currentGame = dataGame(reply)]
                 ELSE [rest EXCEPT !.currentGame = dataGame(reply),
                                   !.currentView = "game",
                                   !.emitted = Append(@, dataGame(reply).id)]
    /\ UNCHANGED relay

\* The relay receives the join_game message the socket has emitted.
AppSubscribe ==
    /\ ui.view = "app"
    /\ ui.emitted # << >>
    /\ HandleJoinGame(AppSocket, Head(ui.emitted))
    /\ ui' = [received(ui) EXCEPT !.emitted = Tail(@)]

\* newSocket.on('game_update'): the next push arrives.
AppGameUpdate ==
    /\ ui.view = "app"
    /\ ui.inbox # << >>
    /\ ui' = [ui EXCEPT !.inbox = Tail(@),
                        !.currentGame = IF Head(ui.inbox).game # NoGame
                                        THEN Head(ui.inbox).game ELSE @]
    /\ UNCHANGED relay

\* onBackToGames, or 'Games' in the navigation bar.
AppBackToGames ==
    /\ ui.view = "app"
    /\ ui.currentView = "game"
    /\ ui' = [ui EXCEPT !.currentView = "games"]
    /\ UNCHANGED relay

\* Another client of the relay joins a session or moves in it.
OtherJoin(gameId, playerId) ==
    /\ hasGame(gameId)
    /\ PostJoin(gameId, playerId, "Ann")
    /\ ui' = received(ui)
OtherMove(gameId, playerId, position) ==
    /\ hasGame(gameId)
    /\ makeMoveAccepts(games[gameId], playerId, position)
    /\ PostMove(gameId, playerId, position)
    /\ ui' = received(ui)

\* Sessions of the App and of others, watched over the App's socket.
AppRun == [games |-> MaxGames, ops |-> MaxOps, clients |-> {AppSocket}, malformed |-> FALSE]
AppInit ==
    /\ games = << >>
    /\ limit = AppRun
    /\ clients = [c \in limit.clients |-> [readyState |-> "OPEN", gameId |-> NoGameId]]
    /\ response = NoResponse
    /\ sent = [c \in limit.clients |-> << >>]
    /\ ui = AppMounted

AppNext ==
    \/ AppCreateGame
    \/ \E gameId \in GameIds, button \in {"Join Game", "Continue Game", "View Game"} :
          AppJoinGame(gameId, button)
    \/ \E position \in Cells : AppMakeMove(position)
    \/ \E i \in 1..MaxRequests : AppResponse(i)
    \/ AppSubscribe
    \/ AppGameUpdate
    \/ AppBackToGames
    \/ \E gameId \in GameIds, playerId \in PlayerIds : OtherJoin(gameId, playerId)
    \/ \E gameId \in GameIds, playerId \in PlayerIds, position \in Cells :
          OtherMove(gameId, playerId, position)

AppSpec == AppInit /\ [][AppNext]_vars

(***************************************************************************)
(* Properties.                                                             *)
(***************************************************************************)
marked(board) == { i \in Cells : board[i] # Null }
\* An accepted move on session g: the only step that changes a board.
Moved(g) == games'[g].board # games[g].board

\* C1: a cell that holds a mark keeps that mark through every later step,
\* accepted or rejected, in every session.
C1_MarkedCellsAreKept ==
    [][\A g \in GameIds : \A i \in Cells :
          games[g].board[i] # Null => games'[g].board[i] = games[g].board[i]]_vars

\* A session in which a move was rejected after at least two were accepted.
C1_Witness ==
    \E g \in GameIds :
        /\ Cardinality(marked(games[g].board)) >= 2
        /\ response = fail(400, "Invalid move")

\* C2 as stated: every accepted move leaves the turn at the other mark.
C2_TurnFlipsOnEveryMove ==
    [][\A g \in GameIds :
          Moved(g) => games'[g].currentPlayer # games[g].currentPlayer]_vars

\* C2, amended: an accepted move that leaves the session in progress passes
\* the turn to the other mark; the move that concludes the session leaves the
\* turn at the mover's mark.
C2_TurnFlipsUnlessConcluded ==
    [][\A g \in GameIds :
          Moved(g) =>
             IF games'[g].status = "playing"
             THEN /\ games'[g].currentPlayer \in Symbols
                  /\ games'[g].currentPlayer # games[g].currentPlayer
             ELSE games'[g].currentPlayer = games[g].currentPlayer]_vars

\* A session concluded by O's move, the turn still at O.
C2_Witness ==
    \E g \in GameIds :
        /\ games[g].status = "finished"
        /\ games[g].winner = "O"
        /\ games[g].currentPlayer = "O"
        /\ response = ok(games[g])

\* Some entry of the session's players seats playerId with the mark whose turn it is.
holdsTurn(game, playerId) ==
    \E k \in 1..Len(game.players) :
        /\ game.players[k].id = playerId
        /\ game.players[k].symbol = game.currentPlayer

\* The player ids and positions the requests of the run carry.
SentPlayerIds == IF limit.malformed THEN AnyPlayerIds ELSE PlayerIds
SentPositions == IF limit.malformed THEN AnyPositions ELSE Positions

\* C3: a move is accepted only from a participant seated with the mark whose
\* turn it is, and it writes that mark; a move from anyone else (the other
\* player, or no player of the session) is one makeMove rejects.
C3_OnlyTheTurnHolderMoves ==
    /\ [](\A g \in GameIds, playerId \in AnyPlayerIds :
            ~holdsTurn(games[g], playerId) =>
               \A position \in AnyPositions :
                  ~makeMoveAccepts(games[g], playerId, position))
    /\ [][\A g \in GameIds :
            Moved(g) =>
               \A playerId \in SentPlayerIds, position \in SentPositions :
                  PostMove(g, playerId, position) =>
                     /\ holdsTurn(games[g], playerId)
                     /\ cellAt(games'[g].board, position) = games[g].currentPlayer
                     /\ marked(games'[g].board) =
                           marked(games[g].board) \cup {propertyKey(position)}]_vars

\* A move was just rejected in a session in progress whose two seats are held
\* by different participants and whose board is still empty.
C3_Witness ==
    \E g \in GameIds :
        /\ games[g].status = "playing"
        /\ games[g].players[1].id # games[g].players[2].id
        /\ marked(games[g].board) = {}
        /\ response = fail(400, "Invalid move")

\* C4: no session ever holds more than 2 players, and a join on a session that
\* holds 2 is answered 400 'Game is full' and changes no session.
C4_ThirdJoinFails ==
    /\ [](\A g \in GameIds : Len(games[g].players) <= 2)
    /\ [][\A gameId \in GameIds :
            Len(games[gameId].players) = 2 =>
               \A body \in JoinBodies(gameId) :
                  PostJoin(gameId, body[1], body[2]) =>
                     /\ games' = games
                     /\ response' = fail(400, "Game is full")]_vars

\* A join was just refused by a session that holds two players.
C4_Witness ==
    /\ response = fail(400, "Game is full")
    /\ \E g \in GameIds : Len(games[g].players) = 2

\* C5 as stated: the session stored and returned by a create request seats the
\* requester, and only the requester, with X, waiting on an empty board.
C5_CreateSeatsTheRequester ==
    [][\A playerId \in PlayerIds, playerName \in PlayerNames :
          PostGames(playerId, playerName) =>
             LET game == games'[Len(games')]
             IN  /\ game.players = <<[id |-> playerId, name |-> playerName, symbol |-> "X"]>>
                 /\ game.status = "waiting"
                 /\ marked(game.board) = {}
                 /\ response'.games = <<getState(game)>>]_vars

\* C6: the first seat holds X and the second O; a step never removes, reorders
\* or alters a seat; and a session leaves 'waiting' exactly in the step that
\* seats its second player, for 'playing' with the turn at X.
C6_MarksFollowJoinOrder ==
    /\ [](\A g \in GameIds :
            LET seats == games[g].players
            IN  /\ Len(seats) >= 1 => seats[1].symbol = "X"
                /\ Len(seats) >= 2 => seats[2].symbol = "O")
    /\ [][\A g \in GameIds :
            LET before == games[g].players
                after  == games'[g].players
            IN  /\ Len(after) >= Len(before)
                /\ \A k \in 1..Len(before) : after[k] = before[k]
                /\ (Len(before) < 2 /\ Len(after) = 2)
                      <=> (games[g].status = "waiting" /\ games'[g].status # "waiting")
                /\ (Len(before) < 2 /\ Len(after) = 2) =>
                      /\ games'[g].status = "playing"
                      /\ games'[g].currentPlayer = "X"]_vars

\* The second player was just seated and the session is in progress.
C6_Witness ==
    \E g \in GameIds :
        /\ Len(games[g].players) = 2
        /\ games[g].status = "playing"
        /\ marked(games[g].board) = {}
        /\ response = ok(games[g])

\* The 8 lines of the board: 3 rows, 3 columns, 2 diagonals.
Lines ==
    { {3 * r + c : c \in 0..2} : r \in 0..2 }
       \cup { {3 * r + c : r \in 0..2} : c \in 0..2 }
       \cup { {0, 4, 8}, {2, 4, 6} }
completes(board, mark) == \E line \in Lines : \A i \in line : board[i] = mark

\* C7: an accepted move concludes the session with the mover's mark as winner
\* if and only if, after the write, some line holds the mover's mark three
\* times, whatever the order in which the line was filled.
C7_WinIffLineCompleted ==
    [][\A g \in GameIds :
          Moved(g) =>
             LET mover == games[g].currentPlayer
             IN  (games'[g].status = "finished" /\ games'[g].winner = mover)
                    <=> completes(games'[g].board, mover)]_vars

\* X has just won on the middle column.
C7_Witness ==
    \E g \in GameIds :
        /\ games[g].winner = "X"
        /\ \A i \in {1, 4, 7} : games[g].board[i] = "X"
        /\ response = ok(games[g])

\* C8: an accepted move that fills the ninth cell concludes the session: as a
\* draw if no line is complete, as a win of the mover if it completes a line.
C8_NinthMoveDrawOrWin ==
    [][\A g \in GameIds :
          (Moved(g) /\ marked(games'[g].board) = Cells) =>
             LET mover == games[g].currentPlayer
             IN  /\ games'[g].status = "finished"
                 /\ games'[g].winner =
                       IF completes(games'[g].board, mover) THEN mover ELSE "draw"]_vars

\* The board X,O,X,X,O,O,O,X,X is full without a line: a draw.
C8_Witness ==
    \E g \in GameIds :
        /\ games[g].board = [i \in Cells |-> IF i \in {0, 2, 3, 7, 8} THEN "X" ELSE "O"]
        /\ games[g].status = "finished"
        /\ games[g].winner = "draw"

rank(status) == CASE status = "waiting" -> 0 [] status = "playing" -> 1 [] status = "finished" -> 2

\* C9: no step moves a session's status backward, and no step changes
\* anything of a session that is finished.
C9_StatusOnlyAdvances ==
    [][\A g \in GameIds :
          /\ rank(games[g].status) <= rank(games'[g].status)
          /\ games[g].status = "finished" => games'[g] = games[g]]_vars

\* A finished session has just refused a move while a connection is
\* subscribed to it.
C9_Witness ==
    \E g \in GameIds :
        /\ games[g].status = "finished"
        /\ response = fail(400, "Invalid move")
        /\ \E c \in ClientIds : clients[c].gameId = g

\* C10: a session has a winner exactly when it is finished, and the winner
\* is then a mark or 'draw'.
C10_WinnerIffFinished ==
    \A g \in GameIds :
        /\ games[g].winner # Null <=> games[g].status = "finished"
        /\ games[g].status = "finished" => games[g].winner \in Symbols \cup {"draw"}

\* A session finished by a ninth move that wins.
C10_Witness ==
    \E g \in GameIds :
        /\ marked(games[g].board) = Cells
        /\ games[g].winner \in Symbols

\* C11: a move on a session that is not 'playing' (waiting or finished) is
\* refused with 'Invalid move' and changes no board, whoever sends it and
\* whatever position it names.
C11_NoMoveUnlessPlaying ==
    /\ [](\A g \in GameIds :
            games[g].status # "playing" =>
               \A playerId \in AnyPlayerIds, position \in AnyPositions :
                  ~makeMoveAccepts(games[g], playerId, position))
    /\ [][\A g \in GameIds :
            games[g].status # "playing" =>
               /\ games'[g].board = games[g].board
               \* the step is a refusal that changes nothing, or no move on g
               /\ \/ /\ response' = fail(400, "Invalid move")
                     /\ games' = games
                  \/ \A body \in MoveBodies(g) :
                        ~PostMove(g, body[1], body[2])]_vars

\* The one seated player of a waiting session has just been refused a move.
C11_Witness ==
    \E g \in GameIds :
        /\ games[g].status = "waiting"
        /\ Len(games[g].players) = 1
        /\ marked(games[g].board) = {}
        /\ response = fail(400, "Invalid move")

\* C12: a request answered with an error (404 or 400) leaves the whole
\* registry as it was, the turn included, and sends no message to any
\* connection.
C12_FailedRequestsChangeNothing ==
    [][response'.kind = "error" =>
          /\ games' = games
          /\ \A c \in ClientIds : sent'[c] = << >>]_vars

\* A move on a session in play has just been refused while an open
\* connection is subscribed to the session.
C12_Witness ==
    \E g \in GameIds, c \in ClientIds :
        /\ games[g].status = "playing"
        /\ marked(games[g].board) # {}
        /\ clients[c] = [readyState |-> "OPEN", gameId |-> g]
        /\ response = fail(400, "Invalid move")
        /\ sent[c] = << >>

\* C13: a step that changes session g (a successful join or move) sends
\* exactly one game_update, carrying the state of g after the step, to every
\* connection that is open and subscribed to g.
C13_OneUpdatePerMutation ==
    [][\A g \in GameIds :
          games'[g] # games[g] =>
             \A c \in ClientIds :
                (clients'[c].readyState = "OPEN" /\ clients'[c].gameId = g) =>
                   sent'[c] = << [type |-> "game_update",
                                  game |-> getState(games'[g])] >>]_vars

\* A successful move has just been pushed to an open subscriber.
C13_Witness ==
    \E g \in GameIds, c \in ClientIds :
        /\ marked(games[g].board) # {}
        /\ response = ok(games[g])
        /\ clients[c] = [readyState |-> "OPEN", gameId |-> g]
        /\ sent[c] = <<game_update(games[g])>>

\* Some connection is sent a message by the step.
Pushes == \E c \in ClientIds : sent'[c] # << >>

\* C14, as stated: only a step that changes a session (a successful join or
\* move) sends a message to a connection.
C14_OnlyMutationsPush ==
    [][Pushes => \E g \in GameIds : games'[g] # games[g]]_vars

\* C14: a message is sent to a connection only by a step that changes a
\* session (a successful join or move) or by a join_game message naming an
\* existing session; create, list, get, a join_game naming an unknown id and
\* refused requests send none.
C14_OnlyMutationsAndSubscribesPush ==
    [][Pushes =>
          \/ \E g \in GameIds : games'[g] # games[g]
          \/ \E c \in ClientIds, g \in GameIds : HandleJoinGame(c, g)]_vars

\* A connection has just subscribed to a session and been sent its state.
C14_Witness ==
    \E g \in GameIds, c \in ClientIds :
        /\ response = NoResponse
        /\ clients[c] = [readyState |-> "OPEN", gameId |-> g]
        /\ sent[c] = <<game_update(games[g])>>

\* C15: the messages a step sends all carry one session g; they reach only
\* connections that are open and whose gameId is g, and they reach every
\* such connection, whatever the state of the other subscribers.
C15_OnlySubscribersReceive ==
    [][\A c \in ClientIds :
          sent'[c] # << >> =>
             LET g == sent'[c][1].game.id
             IN  /\ \A i \in DOMAIN sent'[c] : sent'[c][i].game.id = g
                 /\ clients'[c].readyState = "OPEN"
                 /\ clients'[c].gameId = g
                 /\ \A d \in ClientIds :
                       sent'[d] # << >> <=>
                          (clients'[d].readyState = "OPEN" /\ clients'[d].gameId = g)]_vars

\* Of two subscribers of one session, the one that is closing has been
\* skipped and the open one has been sent the update of a successful join.
C15_Witness ==
    \E g \in GameIds, c \in ClientIds, d \in ClientIds :
        /\ clients[c] = [readyState |-> "CLOSING", gameId |-> g]
        /\ clients[d] = [readyState |-> "OPEN", gameId |-> g]
        /\ response = ok(games[g])
        /\ sent[c] = << >>
        /\ sent[d] = <<game_update(games[g])>>

\* C16, as stated: after a join_game message the connection's gameId is the
\* id the message named.
C16_LastSubscribeWins ==
    [][\A c \in ClientIds, g \in RequestIds :
          HandleJoinGame(c, g) => clients'[c].gameId = g]_vars

\* C16: a connection has one gameId; a join_game message naming an existing
\* session replaces it, one naming an unknown id leaves it as it was, and no
\* other step changes it while the connection lives.  The messages a
\* connection is sent carry the session its gameId names.
C16_LastKnownSubscribeWins ==
    /\ [][\A c \in ClientIds :
            /\ \A g \in RequestIds :
                  HandleJoinGame(c, g) =>
                     clients'[c].gameId = IF hasGame(g) THEN g ELSE clients[c].gameId
            /\ clients'[c].gameId # clients[c].gameId =>
                  \/ \E g \in GameIds : HandleJoinGame(c, g)
                  \/ Close(c)
            /\ \A i \in DOMAIN sent'[c] :
                  sent'[c][i].game.id = clients'[c].gameId]_vars
    /\ [](\A c \in ClientIds : clients[c].gameId \in GameIds \cup {NoGameId})

\* A connection subscribed to the second of two sessions has just asked for
\* a session that does not exist.
C16_Witness ==
    \E c \in ClientIds :
        /\ Len(games) = 2
        /\ clients[c] = [readyState |-> "OPEN", gameId |-> 2]
        /\ response = NoResponse
        /\ sent = NoSends

\* C17, as stated: a join or a move whose body lacks the player's id, the
\* player's name or the position is answered with an error and changes no
\* session.
C17_MalformedRequestsAreRefused ==
    [][\A g \in GameIds :
          /\ \A body \in MalformedJoins :
                PostJoin(g, body[1], body[2]) =>
                   response'.kind = "error" /\ games' = games
          /\ \A body \in MalformedMoves :
                PostMove(g, body[1], body[2]) =>
                   response'.kind = "error" /\ games' = games]_vars

\* C18: get, join and move naming an id under which no session was created
\* are answered 404 'Game not found'; the registry gains no session and no
\* session changes.
C18_UnknownIdIsNotFound ==
    [][\A gameId \in RequestIds \ GameIds :
          (\/ GetGame(gameId)
           \/ \E body \in JoinBodies(gameId) : PostJoin(gameId, body[1], body[2])
           \/ \E body \in MoveBodies(gameId) : PostMove(gameId, body[1], body[2]))
          => /\ response' = fail(404, "Game not found")
             /\ games' = games]_vars

\* A request naming an unknown id has just been refused beside a session in
\* play.
C18_Witness ==
    /\ \E g \in GameIds : games[g].status = "playing"
    /\ response = fail(404, "Game not found")

\* The names under which a snapshot could carry the time of conclusion.
ConcludedAtFields == {"concludedAt", "finishedAt", "finished_at"}

\* C19, as stated: the snapshot of a session carries the time of its
\* conclusion exactly when the session is finished.
C19_ConcludedAtIffFinished ==
    \A g \in GameIds :
        games[g].status = "finished" <=>
            DOMAIN getState(games[g]) \cap ConcludedAtFields # {}

\* C20: the list and get routes change no session, no connection and no
\* bound of the run, and send no message.
C20_ReadsChangeNothing ==
    [][(GetGames \/ \E gameId \in RequestIds : GetGame(gameId)) =>
          /\ games' = games
          /\ clients' = clients
          /\ limit' = limit
          /\ \A c \in ClientIds : sent'[c] = << >>]_vars

\* Two sessions have just been listed while a connection is subscribed to
\* one of them.
C20_Witness ==
    /\ response.kind = "games"
    /\ Len(response.games) = 2
    /\ \E c \in ClientIds : clients[c].gameId \in GameIds

\* C21: the registry only grows and a stored session keeps its id and its
\* time of creation; a list reply holds every stored session, under its id,
\* in the order of creation.
C21_SessionsStayListedInOrder ==
    /\ [][/\ Len(games') >= Len(games)
          /\ \A g \in GameIds :
                /\ games'[g].id = games[g].id
                /\ games'[g].createdAt = games[g].createdAt]_vars
    /\ [](response.kind = "games" =>
            /\ Len(response.games) = Len(games)
            /\ \A i \in DOMAIN games : response.games[i].id = games[i].id
            /\ \A i, j \in DOMAIN response.games :
                  i < j => response.games[i].createdAt <= response.games[j].createdAt)

\* Two sessions have just been listed, the older one already in play.
C21_Witness ==
    /\ response.kind = "games"
    /\ Len(response.games) = 2
    /\ response.games[1].status = "playing"
    /\ response.games[2].status = "waiting"

\* C27, as stated: the players of a session have pairwise distinct ids.
C27_SeatsHoldDistinctParticipants ==
    \A g \in GameIds :
        \A i, j \in DOMAIN games[g].players :
            i # j => games[g].players[i].id # games[g].players[j].id

\* C28, as stated: a session in play has a move that makeMove accepts, by
\* some participant on some cell.
C28_PlayingSessionCanMove ==
    \A g \in GameIds :
        games[g].status = "playing" =>
            \E playerId \in AnyPlayerIds, position \in Cells :
                makeMoveAccepts(games[g], playerId, position)

\* C29: every accepted move marks one more cell, so the marked cells count
\* the accepted moves: a finished session has at least 5, a session with 9
\* is finished, and a finished session accepts no move.
C29_FiveToNineMoves ==
    /\ [](\A g \in GameIds :
            /\ games[g].status = "finished" => Cardinality(marked(games[g].board)) >= 5
            /\ Cardinality(marked(games[g].board)) = 9 => games[g].status = "finished")
    /\ [][\A g \in GameIds :
            Moved(g) =>
               /\ games[g].status = "playing"
               /\ Cardinality(marked(games'[g].board)) =
                     Cardinality(marked(games[g].board)) + 1]_vars

\* A session has just been concluded by its fifth move.
C29_Witness ==
    \E g \in GameIds :
        /\ games[g].status = "finished"
        /\ Cardinality(marked(games[g].board)) = 5
        /\ response = ok(games[g])

\* The board is an array of nine cells, each empty or holding a mark.
BoardIsNineCells(board) ==
    /\ DOMAIN board = Cells
    /\ \A i \in Cells : board[i] \in {Null} \cup Symbols

\* C30, as stated: the board keeps its nine cells, and makeMove refuses every
\* position that is not one of the integers 0..8.
C30_OnlyIntegerCellsAccepted ==
    \A g \in GameIds :
        /\ BoardIsNineCells(games[g].board)
        /\ \A playerId \in AnyPlayerIds, position \in AnyPositions \ Cells :
              ~makeMoveAccepts(games[g], playerId, position)

\* C30: the board keeps its nine cells, each empty, X or O; makeMove refuses
\* every position that names no cell (negative, 9 or more, a fraction, not a
\* number, missing), and the string "4" names cell 4 like the number does.
C30_OnlyCellsAccepted ==
    \A g \in GameIds :
        /\ BoardIsNineCells(games[g].board)
        /\ \A playerId \in AnyPlayerIds :
              /\ \A position \in AnyPositions \ (Cells \cup {StringPosition}) :
                    ~makeMoveAccepts(games[g], playerId, position)
              /\ makeMoveAccepts(games[g], playerId, StringPosition)
                    <=> makeMoveAccepts(games[g], playerId, StringPositionCell)

\* In a run that sends positions of every kind, a move has just been refused
\* by a session in play whose cell 4 is marked.
C30_Witness ==
    \E g \in GameIds :
        /\ limit.malformed
        /\ games[g].status = "playing"
        /\ games[g].board[StringPositionCell] # Null
        /\ response = fail(400, "Invalid move")

\* C22, as stated: for a session the relay has concluded as a draw, the
\* status message of GameBoard is the draw message and the result GameList
\* shows is 'Draw', whoever views it.
C22_DrawIsShownAsDraw ==
    \A g \in GameIds :
        games[g].winner = "draw" =>
            \A playerId \in PlayerIds :
                /\ getGameStatusMessage(getState(games[g]), playerId)
                      = "It's a draw! Good game!"
                /\ getGameResult(getState(games[g]), playerId) = "Draw"

\* The viewer is seated with the mark whose turn it is, the game is being
\* played and the cell is empty.
mayMove(game, playerId, index) ==
    /\ game.status = "playing"
    /\ \E k \in DOMAIN game.players :
          /\ game.players[k].id = playerId
          /\ game.players[k].symbol = field(game, "current_player")
    /\ game.board[index] = Null

\* C23: a cell on which the viewer may not move (the game is not being
\* played, or it is not the turn of the viewer's mark, or the cell is
\* marked) is disabled, no click on it is taken and onMove is never called
\* for it.
C23_OnlyLegalCellsAreOpen ==
    ui.view = "board" =>
        \A index \in Cells :
            ~mayMove(ui.game, ui.playerId, index) =>
                /\ cellDisabled(ui.game, ui.playerId, index)
                /\ \A i \in DOMAIN ui.timers : ui.timers[i] # index
                /\ \A i \in DOMAIN ui.onMove : ui.onMove[i] # index

\* onMove has been called for a cell while another cell, already marked, is
\* disabled.
C23_Witness ==
    /\ ui.view = "board"
    /\ ui.onMove # << >>
    /\ \E index \in Cells :
          /\ ui.game.board[index] # Null
          /\ cellDisabled(ui.game, ui.playerId, index)

\* The game waits for a player, has a free seat and the viewer has none.
joinable(game, playerId) ==
    /\ game.status = "waiting"
    /\ Len(game.players) < 2
    /\ \A k \in DOMAIN game.players : game.players[k].id # playerId

\* The ids of the games on the cards shown.
shownIds ==
    LET shown == filteredAndSortedGames(ui.games, ui.filter, ui.playerId)
    IN  { shown[i].id : i \in DOMAIN shown }

\* 'Join Game' is on the cards of the joinable games and no others, the
\* 'Joinable' filter shows those games and its count counts them.
JoinIsOfferedWhereJoinable ==
    LET joinables == { i \in DOMAIN ui.games : joinable(ui.games[i], ui.playerId) }
    IN  /\ \A i \in DOMAIN ui.games :
              "Join Game" \in cardActions(ui.games[i], ui.playerId) <=> i \in joinables
        /\ ui.filter = "joinable" => shownIds = { ui.games[i].id : i \in joinables }
        /\ getFilterCounts(ui.games, ui.playerId)["joinable"] = Cardinality(joinables)

\* C24, as stated: 'Join Game', the 'Joinable' filter and its count go with
\* the joinable games, and the card of a waiting game with two players has
\* the waiting indicator and no join button.
C24_FullWaitingGameShowsIndicator ==
    ui.view = "list" =>
        /\ JoinIsOfferedWhereJoinable
        /\ \A i \in DOMAIN ui.games :
              (ui.games[i].status = "waiting" /\ Len(ui.games[i].players) = 2) =>
                 /\ "Waiting for players" \in cardActions(ui.games[i], ui.playerId)
                 /\ "Join Game" \notin cardActions(ui.games[i], ui.playerId)

\* C24: 'Join Game', the 'Joinable' filter and its count go with the
\* joinable games; the card of a waiting game with two players has no join
\* button, and it has the waiting indicator exactly when the viewer is not
\* one of the two.
C24_FullWaitingGameOfOthersShowsIndicator ==
    ui.view = "list" =>
        /\ JoinIsOfferedWhereJoinable
        /\ \A i \in DOMAIN ui.games :
              (ui.games[i].status = "waiting" /\ Len(ui.games[i].players) = 2) =>
                 /\ "Join Game" \notin cardActions(ui.games[i], ui.playerId)
                 /\ "Waiting for players" \in cardActions(ui.games[i], ui.playerId)
                       <=> \A k \in 1..2 : ui.games[i].players[k].id # ui.playerId

\* The 'Joinable' filter shows a game the viewer can join and hides a full
\* waiting game of two others, whose card has the waiting indicator.
C24_Witness ==
    /\ ui.view = "list"
    /\ ui.filter = "joinable"
    /\ Len(ui.games) = 2
    /\ \E i, j \in DOMAIN ui.games :
          /\ shownIds = {ui.games[i].id}
          /\ ui.games[j].status = "waiting"
          /\ Len(ui.games[j].players) = 2
          /\ cardActions(ui.games[j], ui.playerId) = {"Waiting for players"}

\* C25, as stated: for statistics that are all zero the achievements the
\* effect computes are the empty list.
C25_NoAchievementsForZeroStats ==
    (/\ ui.view = "stats"
     /\ ui.calculated
     /\ ui.stats.games_played = 0
     /\ ui.stats.wins = 0
     /\ ui.stats.draws = 0) => ui.achievements = << >>

\* The rank of the thresholds applied to a win rate of at least
\* percent - twentieths/20 percent; twentieths = 0 is the exact rate.
rankAt(stats, twentieths) ==
    LET reaches(percent) ==
            /\ stats.games_played > 0
            /\ 2000 * stats.wins >= (20 * percent - twentieths) * stats.games_played
    IN  CASE reaches(80) -> "Grandmaster"
          [] ~reaches(80) /\ reaches(70) -> "Master"
          [] ~reaches(70) /\ reaches(60) -> "Expert"
          [] ~reaches(60) /\ reaches(50) -> "Advanced"
          [] ~reaches(50) /\ reaches(30) -> "Intermediate"
          [] ~reaches(30) -> "Beginner"

\* C26, as stated: the rank shown is the one the thresholds 80, 70, 60, 50
\* and 30 give for the win rate wins/games_played in percent, Beginner when
\* no game was played.
C26_RankByWinRate ==
    (ui.view = "stats" /\ ui.rank # Null) => ui.rank = rankAt(ui.stats, 0)

\* C26: the rank shown is the one the thresholds 80, 70, 60, 50 and 30 give
\* for the win rate in percent rounded to one decimal place, that is for a
\* rate of at least the threshold less 0.05; Beginner when no game was
\* played.  Every (wins, games_played) has one rank.
C26_RankByRoundedWinRate ==
    (ui.view = "stats" /\ ui.rank # Null) => ui.rank = rankAt(ui.stats, 1)

\* Master is shown for a win rate below 70 percent.
C26_Witness ==
    /\ ui.view = "stats"
    /\ ui.rank = "Master"
    /\ 100 * ui.stats.wins < 70 * ui.stats.games_played

\* The number of cells of the board that hold mark.
count(board, mark) == Cardinality({ i \in Cells : board[i] = mark })

\* C31: in every session X has as many cells as O or one more, and while
\* the session is in progress the turn is X's exactly when the counts are
\* equal and O's exactly when X is one ahead.
C31_MarkCountsTrackTheTurn ==
    \A g \in GameIds :
        LET ahead == count(games[g].board, "X") - count(games[g].board, "O")
        IN  /\ ahead \in {0, 1}
            /\ games[g].status = "playing" =>
                  /\ games[g].currentPlayer = "X" <=> ahead = 0
                  /\ games[g].currentPlayer = "O" <=> ahead = 1

\* A session in progress with two X and one O is on O's turn.
C31_Witness ==
    \E g \in GameIds :
        /\ games[g].status = "playing"
        /\ count(games[g].board, "X") = 2
        /\ count(games[g].board, "O") = 1
        /\ games[g].currentPlayer = "O"

\* C32: a session that is waiting or in progress has no complete line and,
\* in progress, an empty cell; a session won by a mark has a complete line
\* of that mark and none of the other; a drawn session has a full board
\* and no complete line.
C32_BoardAgreesWithStatus ==
    \A g \in GameIds :
        LET board == games[g].board
            other(mark) == IF mark = "X" THEN "O" ELSE "X"
        IN  /\ games[g].status \in {"waiting", "playing"} =>
                  \A mark \in Symbols : ~completes(board, mark)
            /\ games[g].status = "playing" => marked(board) # Cells
            /\ (games[g].status = "finished" /\ games[g].winner \in Symbols) =>
                  /\ completes(board, games[g].winner)
                  /\ ~completes(board, other(games[g].winner))
            /\ (games[g].status = "finished" /\ games[g].winner = "draw") =>
                  /\ marked(board) = Cells
                  /\ \A mark \in Symbols : ~completes(board, mark)
            /\ games[g].status = "finished" => games[g].winner \in Symbols \cup {"draw"}

\* A session won by O, the mark that moves second.
C32_Witness ==
    \E g \in GameIds :
        /\ games[g].status = "finished"
        /\ games[g].winner = "O"
        /\ completes(games[g].board, "O")

\* C37, as stated: GameBoard has at most one move under way for the game it
\* shows: while no new snapshot has arrived, the clicks it has taken and the
\* onMove calls it has made are one at most.
C37_OneMovePerTurn ==
    ui.view = "board" => Len(ui.timers) + Len(ui.onMove) <= 1

\* C38, as stated: no render of GameList changes the games array it was
\* given, whatever the filter.
C38_RenderKeepsTheGamesProp ==
    [][(ui.view = "list" /\ ui'.view = "list") => ui'.games = ui.games]_vars

\* The buttons of a card that call onJoinGame.
JoinButtons == {"Join Game", "Continue Game", "View Game"}

\* C33, as stated: when the App joins a session and the relay reports
\* success, the session's player list holds an entry whose id is the App's
\* player id.
C33_JoinSeatsThePlayerId ==
    [][\A gameId \in GameIds, button \in JoinButtons :
          (AppJoinGame(gameId, button) /\ response'.success) =>
             \E k \in DOMAIN games'[gameId].players :
                games'[gameId].players[k].id = ui.playerId]_vars

\* C34, as stated: 'Continue Game' and 'View Game' leave the players and the
\* status of the session as they are on the relay, and when the reply to
\* the request they send arrives the App shows that game.
C34_OpeningOnlyChangesTheDisplay ==
    [][ui.view = "app" =>
          /\ \A gameId \in GameIds, button \in {"Continue Game", "View Game"} :
                AppJoinGame(gameId, button) =>
                   /\ games'[gameId].players = games[gameId].players
                   /\ games'[gameId].status = games[gameId].status
          /\ \A i \in DOMAIN ui.http :
                (ui.http[i].kind \in {"Continue Game", "View Game"} /\ AppResponse(i)) =>
                   /\ ui'.currentView = "game"
                   /\ ui'.currentGame.id = ui.http[i].gameId]_vars

\* C35, as stated: while currentGame stays with one session, the number of
\* marks on its board never decreases and once it shows the session
\* finished it keeps showing it finished.
C35_ViewNeverGoesBackward ==
    [][(/\ ui.view = "app"
        /\ ui.currentGame # NoGame
        /\ ui'.currentGame.id = ui.currentGame.id) =>
          /\ Cardinality(marked(ui'.currentGame.board))
                >= Cardinality(marked(ui.currentGame.board))
          /\ ui.currentGame.status = "finished" =>
                ui'.currentGame.status = "finished"]_vars

\* C36, as stated: once the App holds a session, currentGame comes to hold
\* another session only with the arrival of the reply to a create or join
\* that succeeded.
C36_OnlyTheEnteredSessionIsShown ==
    [][(/\ ui.view = "app"
        /\ ui.currentGame # NoGame
        /\ ui'.currentGame.id # ui.currentGame.id) =>
          \E i \in DOMAIN ui.http :
             /\ ui.http[i].kind # "move"
             /\ ui.http[i].reply.success
             /\ AppResponse(i)]_vars
====
